---------------------------- MODULE Spec2Model ----------------------------
(***************************************************************************)
(* get_extinction of zh_scraper.py as a state machine.                     *)
(*                                                                         *)
(* One call of get_extinction(galaxy, ra, dec, radius, teff) runs through  *)
(*   "call"    lines 35-75: galaxy.upper() and the chain of checks,        *)
(*   "request" lines 77-83: requests.get, raise_for_status, get_text,      *)
(*   "scan"    lines 85-96: one iteration of the for loop per step,        *)
(*   "finish"  lines 98-101: return the pair or raise,                     *)
(*   "done"    the call has returned or raised.                            *)
(*                                                                         *)
(* Numbers are kept in thousandths (4.48 hours is 4480, -65.2 degrees is   *)
(* -65200, 12.01 arcminutes is 12010).  A Python argument is a record      *)
(* [k |-> its type, v |-> its value in thousandths]; k is "float", "int",  *)
(* "bool", "str", or "nan" for the float nan.  Text is TLA+ strings, read  *)
(* character by character with SubSeq.                                     *)
(***************************************************************************)
EXTENDS Integers, Sequences, FiniteSets, TLC

VARIABLES pc, galaxy, ra, dec, radius, teff, base_url, http_calls, status,
          lines, idx, mean_av, stdev_av, error, result

vars == <<pc, galaxy, ra, dec, radius, teff, base_url, http_calls, status,
          lines, idx, mean_av, stdev_av, error, result>>

-----------------------------------------------------------------------------
(* Bounds of the model. *)

\* Longest response text, in lines, under SpecParse.
MaxLines == 3
\* Longest response text, in lines, under Spec (which draws every argument).
MaxLinesShort == 1

-----------------------------------------------------------------------------
(* Program constants, in thousandths. *)

LMC_RA_UNITS == 7000
LMC_RA_MIN == 4480
LMC_RA_MAX == 6270
LMC_DEC_MIN == -72500
LMC_DEC_MAX == -65200
SMC_RA_UNITS == 6000
SMC_RA_MIN == 375
SMC_RA_MAX == 1375
SMC_DEC_MIN == -74900
SMC_DEC_MAX == -70400
RADIUS_MAX == 12000

LMC_URL == "https://www.as.arizona.edu/~dennis/cgi-bin/lmcext.cgi"
SMC_URL == "https://www.as.arizona.edu/~dennis/cgi-bin/smcext.cgi"
TEFF_CHOICES == {"all", "cool", "hot"}

MEAN_MARKER == "<Av> ="
STDEV_MARKER == "Standard deviation of extinction values ="

-----------------------------------------------------------------------------
(* Python values. *)

Float(v) == [k |-> "float", v |-> v]
PyInt(n) == [k |-> "int", v |-> n * 1000]
PyBool(b) == [k |-> "bool", v |-> IF b THEN 1000 ELSE 0]
NaN == [k |-> "nan", v |-> 0]
PyStr == [k |-> "str", v |-> 0]

\* None, and a value that is not None.
None == <<>>
Some(v) == <<v>>

\* type(x) in {float, int}: a bool's type is bool, nan's type is float.
IsFloatOrInt(x) == x.k \in {"float", "int", "nan"}

\* x > c, x >= c, x <= c for a number x: every comparison with nan is False.
NumGt(x, c) == x.k # "nan" /\ x.v > c
NumGe(x, c) == x.k # "nan" /\ x.v >= c
NumLe(x, c) == x.k # "nan" /\ x.v <= c

\* Comparing with a str raises TypeError; bool compares as the int it is.
Comparable(x) == x.k # "str"

\* An exception: the spec's name for it and the line that raises it.
Err(kind, line) == [kind |-> kind, line |-> line]
NoError == Err("none", 0)

-----------------------------------------------------------------------------
(* str.upper(), on ASCII text. *)

LOWER == "abcdefghijklmnopqrstuvwxyz"
UPPER == "ABCDEFGHIJKLMNOPQRSTUVWXYZ"

Char(s, i) == SubSeq(s, i, i)

UpperChar(c) ==
    IF \E i \in 1..Len(LOWER) : Char(LOWER, i) = c
    THEN Char(UPPER, CHOOSE i \in 1..Len(LOWER) : Char(LOWER, i) = c)
    ELSE c

RECURSIVE Upper(_)
Upper(s) == IF Len(s) = 0 THEN s ELSE UpperChar(Char(s, 1)) \o Upper(Tail(s))


-----------------------------------------------------------------------------
(* The checks of lines 38-68, in the order the code makes them.  The       *)
(* galaxy passed in is the upper-cased one of line 35.                     *)

\* Lines 38-41: the types of ra and dec.
CoordinateTypeError(r, d) ==
    IF ~IsFloatOrInt(r) THEN Err("InvalidCoordinateType", 39)
    ELSE IF ~IsFloatOrInt(d) THEN Err("InvalidCoordinateType", 41)
    ELSE NoError

\* CoordinateError with the range of ra tested before its units.
CoordinateError_RangeFirst(g, r, d) ==
    IF g = "LMC" THEN
        IF ~(NumGe(r, LMC_RA_MIN) /\ NumLe(r, LMC_RA_MAX))
        THEN Err("CoordinateOutOfRange", 48)
        ELSE IF NumGt(r, LMC_RA_UNITS) THEN Err("CoordinateUnitMismatch", 46)
        ELSE IF ~(NumGe(d, LMC_DEC_MIN) /\ NumLe(d, LMC_DEC_MAX))
             THEN Err("CoordinateOutOfRange", 50)
        ELSE NoError
    ELSE IF g = "SMC" THEN
        IF ~(NumGe(r, SMC_RA_MIN) /\ NumLe(r, SMC_RA_MAX))
        THEN Err("CoordinateOutOfRange", 57)
        ELSE IF NumGt(r, SMC_RA_UNITS) THEN Err("CoordinateUnitMismatch", 55)
        ELSE IF ~(NumGe(d, SMC_DEC_MIN) /\ NumLe(d, SMC_DEC_MAX))
             THEN Err("CoordinateOutOfRange", 59)
        ELSE NoError
    ELSE Err("InvalidGalaxy", 62)

\* CoordinateError with a plain else for the SMC: no final else.
CoordinateError_ElseSMC(g, r, d) ==
    IF g = "LMC" THEN
        IF NumGt(r, LMC_RA_UNITS) THEN Err("CoordinateUnitMismatch", 46)
        ELSE IF ~(NumGe(r, LMC_RA_MIN) /\ NumLe(r, LMC_RA_MAX))
             THEN Err("CoordinateOutOfRange", 48)
        ELSE IF ~(NumGe(d, LMC_DEC_MIN) /\ NumLe(d, LMC_DEC_MAX))
             THEN Err("CoordinateOutOfRange", 50)
        ELSE NoError
    ELSE
        IF NumGt(r, SMC_RA_UNITS) THEN Err("CoordinateUnitMismatch", 55)
        ELSE IF ~(NumGe(r, SMC_RA_MIN) /\ NumLe(r, SMC_RA_MAX))
             THEN Err("CoordinateOutOfRange", 57)
        ELSE IF ~(NumGe(d, SMC_DEC_MIN) /\ NumLe(d, SMC_DEC_MAX))
             THEN Err("CoordinateOutOfRange", 59)
        ELSE NoError

\* Lines 43-62: the galaxy and its footprint.
CoordinateError(g, r, d) ==
    IF g = "LMC" THEN
        IF NumGt(r, LMC_RA_UNITS) THEN Err("CoordinateUnitMismatch", 46)
        ELSE IF ~(NumGe(r, LMC_RA_MIN) /\ NumLe(r, LMC_RA_MAX))
             THEN Err("CoordinateOutOfRange", 48)
        ELSE IF ~(NumGe(d, LMC_DEC_MIN) /\ NumLe(d, LMC_DEC_MAX))
             THEN Err("CoordinateOutOfRange", 50)
        ELSE NoError
    ELSE IF g = "SMC" THEN
        IF NumGt(r, SMC_RA_UNITS) THEN Err("CoordinateUnitMismatch", 55)
        ELSE IF ~(NumGe(r, SMC_RA_MIN) /\ NumLe(r, SMC_RA_MAX))
             THEN Err("CoordinateOutOfRange", 57)
        ELSE IF ~(NumGe(d, SMC_DEC_MIN) /\ NumLe(d, SMC_DEC_MAX))
             THEN Err("CoordinateOutOfRange", 59)
        ELSE NoError
    ELSE Err("InvalidGalaxy", 62)

\* RadiusError with 0 <= radius <= 12.
RadiusError_ZeroAllowed(rad) ==
    IF ~Comparable(rad) THEN Err("TypeError", 64)
    ELSE IF ~(NumGe(rad, 0) /\ NumLe(rad, RADIUS_MAX)) THEN Err("InvalidRadius", 65)
    ELSE NoError

\* Lines 64-65: 0 < radius <= 12.  The comparison itself raises TypeError
\* for an operand it cannot order.
RadiusError(rad) ==
    IF ~Comparable(rad) THEN Err("TypeError", 64)
    ELSE IF ~(NumGt(rad, 0) /\ NumLe(rad, RADIUS_MAX)) THEN Err("InvalidRadius", 65)
    ELSE NoError

\* Lines 67-68.
TeffError(t) ==
    IF t \notin TEFF_CHOICES THEN Err("InvalidTeff", 68) ELSE NoError

\* Lines 38-68: the first check that fails ends the call.
ValidationError(g, r, d, rad, t) ==
    IF CoordinateTypeError(r, d) # NoError THEN CoordinateTypeError(r, d)
    ELSE IF CoordinateError(g, r, d) # NoError THEN CoordinateError(g, r, d)
    ELSE IF RadiusError(rad) # NoError THEN RadiusError(rad)
    ELSE TeffError(t)

\* Lines 44 and 53.
BaseUrl(g) == IF g = "LMC" THEN LMC_URL ELSE SMC_URL

\* RaisesForStatus for the 5xx statuses only.
RaisesForStatus_ServerOnly(code) == 500 <= code /\ code < 600

\* response.raise_for_status(): HTTPError for a 4xx or 5xx status, and for
\* no other.
RaisesForStatus(code) == 400 <= code /\ code < 600

-----------------------------------------------------------------------------
(* The text operations of lines 86-94.                                     *)

\* The blank that strip() and split() act on: the lines of the model hold
\* no other whitespace (get_text().splitlines() has removed the line ends).
IsSpace(c) == c = " "

\* sub in s
Contains(s, sub) ==
    \E i \in 1..(Len(s) - Len(sub) + 1) : SubSeq(s, i, i + Len(sub) - 1) = sub

\* Index of the first c in s, 0 when there is none.
IndexOf(s, c) ==
    IF \E i \in 1..Len(s) : Char(s, i) = c
    THEN CHOOSE i \in 1..Len(s) :
             Char(s, i) = c /\ \A j \in 1..(i - 1) : Char(s, j) # c
    ELSE 0

\* s.lstrip(), s.rstrip(), s.strip()
RECURSIVE LStrip(_)
LStrip(s) == IF Len(s) > 0 /\ IsSpace(Char(s, 1)) THEN LStrip(Tail(s)) ELSE s

RECURSIVE RStrip(_)
RStrip(s) ==
    IF Len(s) > 0 /\ IsSpace(Char(s, Len(s)))
    THEN RStrip(SubSeq(s, 1, Len(s) - 1))
    ELSE s

Strip(s) == RStrip(LStrip(s))

\* s.split('=')[1]: the text between the first '=' and the next one (or the
\* end); None stands for the IndexError of a line without '='.
SplitEq1(s) ==
    LET p == IndexOf(s, "=")
        rest == SubSeq(s, p + 1, Len(s))
        q == IndexOf(rest, "=")
    IN  IF p = 0 THEN None
        ELSE IF q = 0 THEN Some(rest)
        ELSE Some(SubSeq(rest, 1, q - 1))

\* s.split()[0]: the first run of non-blank characters; None stands for the
\* IndexError of a blank s.
FirstToken(s) ==
    LET t == LStrip(s)
        e == IndexOf(t, " ")
    IN  IF Len(t) = 0 THEN None
        ELSE IF e = 0 THEN Some(t)
        ELSE Some(SubSeq(t, 1, e - 1))

DIGITS == "0123456789"
IsDigit(c) == \E i \in 1..Len(DIGITS) : Char(DIGITS, i) = c
DigitVal(c) == (CHOOSE i \in 1..Len(DIGITS) : Char(DIGITS, i) = c) - 1

AllDigits(s) == \A i \in 1..Len(s) : IsDigit(Char(s, i))

\* The number a string of digits writes; 0 for the empty string.
RECURSIVE Natural(_)
Natural(s) ==
    IF Len(s) = 0 THEN 0
    ELSE Natural(SubSeq(s, 1, Len(s) - 1)) * 10 + DigitVal(Char(s, Len(s)))

\* float(tok) for decimal text: an optional sign, digits with at most one
\* point, at least one digit.  The value is in thousandths (the texts of the
\* model carry at most three decimals); None stands for ValueError.
\* Exponents, "inf", "nan" and digit-group underscores, which float() also
\* reads, do not occur in the texts of the model.
ParseFloat(tok) ==
    LET signed == Len(tok) > 0 /\ Char(tok, 1) \in {"+", "-"}
        neg == Len(tok) > 0 /\ Char(tok, 1) = "-"
        body == IF signed THEN Tail(tok) ELSE tok
        p == IndexOf(body, ".")
        whole == IF p = 0 THEN body ELSE SubSeq(body, 1, p - 1)
        frac == IF p = 0 THEN "" ELSE SubSeq(body, p + 1, Len(body))
        ok == AllDigits(whole) /\ AllDigits(frac) /\ Len(whole) + Len(frac) > 0
        mag == Natural(whole) * 1000 + Natural(SubSeq(frac \o "000", 1, 3))
    IN  IF ok THEN Some(IF neg THEN 0 - mag ELSE mag) ELSE None

\* float(line.split('=')[1].split()[0]) inside try/except (ValueError,
\* IndexError): the value, or None when either exception was raised.
Extract(line) ==
    LET field == SplitEq1(line)
        tok == IF field = None THEN None ELSE FirstToken(field[1])
    IN  IF tok = None THEN None ELSE ParseFloat(tok[1])

\* Assign that keeps the first value found.
AssignOnce(old, parsed) == IF old # None THEN old ELSE parsed

\* Assign that stores None when the parse fails.
AssignOrClear(old, parsed) == parsed

\* The assignment under try: the variable takes the parsed value; under
\* `except: continue` it keeps the value it had.
Assign(old, parsed) == IF parsed = None THEN old ELSE parsed

\* ScanStep with `if` in place of `elif`.
ScanStep_NoElif(raw, m, s) ==
    LET line == Strip(raw)
        m1 == IF Contains(line, MEAN_MARKER) THEN Assign(m, Extract(line)) ELSE m
        s1 == IF Contains(line, STDEV_MARKER) THEN Assign(s, Extract(line)) ELSE s
    IN  <<m1, s1>>

\* Lines 86-96, one iteration of the loop: <<mean_av, stdev_av>> after it.
ScanStep(raw, m, s) ==
    LET line == Strip(raw)
    IN  IF Contains(line, MEAN_MARKER) THEN <<Assign(m, Extract(line)), s>>
        ELSE IF Contains(line, STDEV_MARKER) THEN <<m, Assign(s, Extract(line))>>
        ELSE <<m, s>>

\* BothFound with `or` in place of `and`.
EitherFound(m, s) == m # None \/ s # None

\* Line 98.
BothFound(m, s) == m # None /\ s # None

-----------------------------------------------------------------------------
(* The arguments and the responses the model draws.                        *)

Galaxies == {"LMC", "lmc", "SMC", "Smc", "M31", ""}

RaValues ==
    { Float(4479), Float(4480), Float(5200), Float(6270), Float(6271),
      Float(7000), Float(7001), Float(78000),
      Float(374), Float(375), Float(1375), Float(1376), Float(6001),
      PyInt(5), NaN, PyBool(TRUE), PyStr }

DecValues ==
    { Float(-72501), Float(-72500), Float(-69500), Float(-65200), Float(-65199),
      Float(-74901), Float(-74900), Float(-70400), Float(-70399), Float(-80000),
      NaN, PyStr }

RadiusValues ==
    { PyInt(0), Float(-1000), Float(1), Float(12000), Float(12010),
      NaN, PyBool(TRUE), PyBool(FALSE), PyStr }

TeffValues == {"all", "cool", "hot", "ALL", "warm"}

\* The statuses of a response that arrived.
StatusCodes == {200, 304, 404, 500}

\* Lines of the page's visible text.
TextLines ==
    { "<Av> = 0.45 (something)",
      "  <Av> =0.3",
      "<Av> = n/a",
      "Standard deviation of extinction values = 0.12 mag",
      "Standard deviation of extinction values = 0.120",
      "Standard deviation of extinction values = -.5",
      "Standard deviation of extinction values =   ",
      "<Av> = 0.2 Standard deviation of extinction values = 0.07",
      "No stars were found" }

RECURSIVE TextsOfLength(_)
TextsOfLength(n) ==
    IF n = 0 THEN {<<>>}
    ELSE {Append(t, l) : t \in TextsOfLength(n - 1), l \in TextLines}

TextsUpTo(n) == UNION {TextsOfLength(k) : k \in 0..n}

\* The pages SpecParse draws, and the pages Spec draws.
Texts == TextsUpTo(MaxLines)
ShortTexts == TextsUpTo(MaxLinesShort)

-----------------------------------------------------------------------------
(* The call. *)

\* The call is about to run with these arguments.
Called(g, r, d, rad, t) ==
    /\ pc = "call"
    /\ galaxy = g /\ ra = r /\ dec = d /\ radius = rad /\ teff = t
    /\ base_url = ""
    /\ http_calls = 0
    /\ status = 0
    /\ lines = <<>>
    /\ idx = 1
    /\ mean_av = None
    /\ stdev_av = None
    /\ error = NoError
    /\ result = None

Init ==
    \E g \in Galaxies, r \in RaValues, d \in DecValues,
       rad \in RadiusValues, t \in TeffValues : Called(g, r, d, rad, t)

InitParse ==
    \E g \in {"lmc", "SMC"}, r \in {Float(5200), Float(1375)} :
        Called(g, r, Float(-70400), Float(12000), "all")

\* Lines 35-75.
Validate ==
    /\ pc = "call"
    /\ galaxy' = Upper(galaxy)
    /\ LET e == ValidationError(Upper(galaxy), ra, dec, radius, teff)
       IN  IF e = NoError
           THEN /\ base_url' = BaseUrl(Upper(galaxy))
                /\ pc' = "request"
                /\ error' = error
           ELSE /\ base_url' = base_url
                /\ pc' = "done"
                /\ error' = e
    /\ UNCHANGED <<ra, dec, radius, teff, http_calls, status, lines, idx,
                   mean_av, stdev_av, result>>

\* Line 77, requests.get raising (no response arrived).
RequestFails ==
    /\ pc = "request"
    /\ http_calls' = http_calls + 1
    /\ error' = Err("RequestFailed", 77)
    /\ pc' = "done"
    /\ UNCHANGED <<galaxy, ra, dec, radius, teff, base_url, status, lines,
                   idx, mean_av, stdev_av, result>>

\* Lines 77-85, a response arrived: raise_for_status, then the text of the
\* page split into lines, and the two results set to None.
RequestResponds(texts) ==
    /\ pc = "request"
    /\ http_calls' = http_calls + 1
    /\ \E code \in StatusCodes, text \in texts :
         /\ status' = code
         /\ IF RaisesForStatus(code)
            THEN /\ error' = Err("RequestFailed", 78)
                 /\ pc' = "done"
                 /\ lines' = lines
            ELSE /\ error' = error
                 /\ pc' = "scan"
                 /\ lines' = text
    /\ idx' = 1
    /\ mean_av' = None
    /\ stdev_av' = None
    /\ UNCHANGED <<galaxy, ra, dec, radius, teff, base_url, result>>

\* Lines 85-96, one iteration of the loop.
ScanLine ==
    /\ pc = "scan"
    /\ idx <= Len(lines)
    /\ mean_av' = ScanStep(lines[idx], mean_av, stdev_av)[1]
    /\ stdev_av' = ScanStep(lines[idx], mean_av, stdev_av)[2]
    /\ idx' = idx + 1
    /\ UNCHANGED <<pc, galaxy, ra, dec, radius, teff, base_url, http_calls,
                   status, lines, error, result>>

\* Lines 98-101, after the last line.
Finish ==
    /\ pc = "scan"
    /\ idx > Len(lines)
    /\ pc' = "done"
    /\ IF BothFound(mean_av, stdev_av)
       THEN /\ result' = <<mean_av, stdev_av>>
            /\ error' = error
       ELSE /\ result' = result
            /\ error' = Err("NoStarsFound", 101)
    /\ UNCHANGED <<galaxy, ra, dec, radius, teff, base_url, http_calls,
                   status, lines, idx, mean_av, stdev_av>>

Next ==
    \/ Validate
    \/ RequestFails
    \/ RequestResponds(ShortTexts)
    \/ ScanLine
    \/ Finish

NextParse ==
    \/ Validate
    \/ RequestFails
    \/ RequestResponds(Texts)
    \/ ScanLine
    \/ Finish

\* Every argument, short pages.
Spec == Init /\ [][Next]_vars

\* A few arguments, every page of up to MaxLines lines.
SpecParse == InitParse /\ [][NextParse]_vars

-----------------------------------------------------------------------------
(* What the claims speak of, stated from the arguments and the page and    *)
(* not from the operators of the call.                                     *)

\* a and b are the same text up to the case of their letters.
SameIgnoringCase(a, b) ==
    /\ Len(a) = Len(b)
    /\ \A i \in 1..Len(a) :
          \/ Char(a, i) = Char(b, i)
          \/ \E j \in 1..Len(LOWER) :
                {Char(a, i), Char(b, i)} = {Char(LOWER, j), Char(UPPER, j)}

IsLMC == SameIgnoringCase(galaxy, "LMC")
IsSMC == SameIgnoringCase(galaxy, "SMC")

\* A float or an int (nan is a float).
NumericArg(x) == x.k \in {"float", "int", "nan"}

\* A float or an int with lo <= x <= hi.
Within(x, lo, hi) == x.k \in {"float", "int"} /\ lo <= x.v /\ x.v <= hi

\* A number above c.
Above(x, c) == x.k \in {"float", "int"} /\ x.v > c

\* 0 < radius <= 12 (True is the number 1).
RadiusInRange == radius.k \in {"float", "int", "bool"} /\ 0 < radius.v /\ radius.v <= 12000

RaInBounds ==
    \/ IsLMC /\ Within(ra, 4480, 6270)
    \/ IsSMC /\ Within(ra, 375, 1375)

DecInBounds ==
    \/ IsLMC /\ Within(dec, -72500, -65200)
    \/ IsSMC /\ Within(dec, -74900, -70400)

\* ra is degree-scale for the galaxy.
RaDegreeScale ==
    \/ IsLMC /\ Above(ra, 7000)
    \/ IsSMC /\ Above(ra, 6000)

TeffValid == teff \in {"all", "cool", "hot"}

AllValid == RaInBounds /\ DecInBounds /\ RadiusInRange /\ TeffValid

ValidationKinds ==
    { "InvalidGalaxy", "InvalidCoordinateType", "CoordinateUnitMismatch",
      "CoordinateOutOfRange", "InvalidRadius", "InvalidTeff" }

Returned == pc = "done" /\ result # None
Raised(kind) == pc = "done" /\ error.kind = kind

\* The call went through the whole page.
Scanned == pc = "done" /\ error.kind \in {"none", "NoStarsFound"}

-----------------------------------------------------------------------------
(* C1 *)

\* C1: a GET is issued only when galaxy is LMC or SMC up to case, ra and dec
\* are numbers inside that galaxy's bounds (inclusive), 0 < radius <= 12 and
\* teff is all, cool or hot; a call that ended in a validation error issued
\* no request.
C1_RequestOnlyAfterValidation ==
    /\ http_calls > 0 => AllValid
    /\ pc = "done" /\ error.kind \in ValidationKinds => http_calls = 0

\* A request went out for ra on the inclusive lower bound of the LMC.
C1_Witness ==
    /\ http_calls = 1
    /\ IsLMC /\ ra = Float(4480) /\ dec = Float(-65200) /\ radius = Float(12000)

-----------------------------------------------------------------------------
(* C2 *)

\* C2 as stated: a galaxy that is neither LMC nor SMC up to case ends in
\* InvalidGalaxy whatever the other arguments, non-numeric ra or dec
\* included.
C2_AlwaysInvalidGalaxy ==
    pc = "done" /\ ~IsLMC /\ ~IsSMC => error.kind = "InvalidGalaxy"

\* C2 amended: a galaxy that is neither LMC nor SMC up to case ends in
\* InvalidGalaxy whatever ra, dec, radius and teff when ra and dec are both
\* a float or an int, and in InvalidCoordinateType when one of them is not.
C2_InvalidGalaxyAfterTypes ==
    pc = "done" /\ ~IsLMC /\ ~IsSMC =>
        IF NumericArg(ra) /\ NumericArg(dec)
        THEN error.kind = "InvalidGalaxy"
        ELSE error.kind = "InvalidCoordinateType"

\* InvalidGalaxy with every other argument invalid as well.
C2_Witness ==
    /\ Raised("InvalidGalaxy")
    /\ galaxy = "M31" /\ ra = Float(78000) /\ dec = Float(-80000)
    /\ radius = PyStr /\ teff = "warm"

-----------------------------------------------------------------------------
(* C5 *)

\* C5: with numeric ra and dec, a degree-scale ra (above 7.0 for LMC, above
\* 6.0 for SMC) ends in CoordinateUnitMismatch whatever dec, radius and teff,
\* and an out-of-bounds ra that is not above that threshold ends in
\* CoordinateOutOfRange.
C5_UnitMismatchBeforeRange ==
    pc = "done" /\ NumericArg(ra) /\ NumericArg(dec) /\ (IsLMC \/ IsSMC) =>
        /\ RaDegreeScale => error.kind = "CoordinateUnitMismatch"
        /\ ~RaDegreeScale /\ ~RaInBounds => error.kind = "CoordinateOutOfRange"
        /\ error.kind = "CoordinateUnitMismatch" => RaDegreeScale

\* ra = 78.0 for the LMC with dec, radius and teff invalid too.
C5_Witness ==
    /\ Raised("CoordinateUnitMismatch")
    /\ IsLMC /\ ra = Float(78000) /\ dec = Float(-80000)
    /\ radius = Float(12010) /\ teff = "warm"

-----------------------------------------------------------------------------
(* C6 *)

\* The request of a finished call failed: no response, or a response whose
\* status is in the given set of failures.
NoResponse == http_calls = 1 /\ status = 0
StatusNot2xx == http_calls = 1 /\ status # 0 /\ ~(200 <= status /\ status < 300)
Status4xx5xx == http_calls = 1 /\ 400 <= status /\ status < 600

\* What a failed request leaves: RequestFailed, nothing parsed, no result.
AbortedOnRequest ==
    /\ pc = "done"
    /\ error.kind = "RequestFailed"
    /\ result = None
    /\ lines = <<>> /\ idx = 1 /\ mean_av = None /\ stdev_av = None

\* C6 as stated: at most one GET, exactly one with valid input; a connection
\* error or a non-2xx status ends the call with RequestFailed, nothing parsed.
C6_Non2xxAborts ==
    /\ http_calls <= 1
    /\ pc = "done" /\ AllValid => http_calls = 1
    /\ NoResponse \/ StatusNot2xx => AbortedOnRequest

\* C6 amended: at most one GET, exactly one with valid input; a connection
\* error or a 4xx or 5xx status ends the call with RequestFailed, with no
\* second request, nothing parsed, and neither a result nor NoStarsFound.
C6_FailedRequestAborts ==
    /\ http_calls <= 1
    /\ pc = "done" /\ AllValid => http_calls = 1
    /\ NoResponse \/ Status4xx5xx => AbortedOnRequest

\* A 404 ended the call.
C6_Witness ==
    /\ Raised("RequestFailed") /\ status = 404 /\ http_calls = 1 /\ AllValid

-----------------------------------------------------------------------------
(* C7 *)

\* C7: with a valid galaxy and in-bounds ra and dec, the radius check passes
\* exactly the radii with 0 < radius <= 12, and every other radius, a
\* non-numeric one included, ends in InvalidRadius.
C7_RadiusCheck ==
    pc = "done" /\ RaInBounds /\ DecInBounds =>
        IF RadiusInRange
        THEN error.kind \notin {"InvalidRadius", "TypeError"}
        ELSE error.kind = "InvalidRadius"

-----------------------------------------------------------------------------
(* C9 *)

\* The first check that fails, in the order ra type, dec type, galaxy, ra
\* units, ra range, dec range, radius, teff; 0 when none fails.
FirstFailingCheck ==
    IF ~NumericArg(ra) THEN 1
    ELSE IF ~NumericArg(dec) THEN 2
    ELSE IF ~(IsLMC \/ IsSMC) THEN 3
    ELSE IF RaDegreeScale THEN 4
    ELSE IF ~RaInBounds THEN 5
    ELSE IF ~DecInBounds THEN 6
    ELSE IF ~RadiusInRange THEN 7
    ELSE IF ~TeffValid THEN 8
    ELSE 0

\* The error of each check.
KindOfCheck(n) ==
    CASE n \in {1, 2} -> "InvalidCoordinateType"
      [] n = 3 -> "InvalidGalaxy"
      [] n = 4 -> "CoordinateUnitMismatch"
      [] n \in {5, 6} -> "CoordinateOutOfRange"
      [] n = 7 -> "InvalidRadius"
      [] n = 8 -> "InvalidTeff"
      [] OTHER -> "none"

\* The check a raise statement of the source belongs to.
CheckAtLine(l) ==
    CASE l = 39 -> 1
      [] l = 41 -> 2
      [] l = 62 -> 3
      [] l \in {46, 55} -> 4
      [] l \in {48, 57} -> 5
      [] l \in {50, 59} -> 6
      [] l \in {64, 65} -> 7
      [] l = 68 -> 8
      [] OTHER -> 0

\* C9: the error reported is that of the first failing check in the order
\* ra type, dec type, galaxy, ra units, ra range, dec range, radius, teff.
C9_FirstFailingCheckReported ==
    pc = "done" /\ FirstFailingCheck # 0 =>
        /\ CheckAtLine(error.line) = FirstFailingCheck
        /\ error.kind = KindOfCheck(FirstFailingCheck)

-----------------------------------------------------------------------------
(* The page, as the parsing claims speak of it. *)

HasMeanMarker(i) == Contains(lines[i], MEAN_MARKER)
HasStdevMarker(i) == Contains(lines[i], STDEV_MARKER)

\* The number line i carries after its '=', None when it carries none.
ValueOf(i) == Extract(lines[i])

\* The lines a mean can come from, and those a standard deviation can.
MeanLines == {i \in 1..Len(lines) : HasMeanMarker(i) /\ ValueOf(i) # None}
StdevLines ==
    {i \in 1..Len(lines) : ~HasMeanMarker(i) /\ HasStdevMarker(i) /\ ValueOf(i) # None}

\* A marker line whose value does not parse.
Malformed(i) == (HasMeanMarker(i) \/ HasStdevMarker(i)) /\ ValueOf(i) = None

First(S) == CHOOSE x \in S : \A y \in S : x <= y
Last(S) == CHOOSE x \in S : \A y \in S : y <= x

-----------------------------------------------------------------------------
(* C3 *)

-----------------------------------------------------------------------------
(* C4 *)

\* C4 as stated: the value returned for a statistic is that of the first
\* line containing its marker.
C4_FirstLineWins ==
    Returned =>
        /\ ValueOf(First({i \in 1..Len(lines) : HasMeanMarker(i)})) # None
              => result[1] = ValueOf(First({i \in 1..Len(lines) : HasMeanMarker(i)}))
        /\ ValueOf(First({i \in 1..Len(lines) : ~HasMeanMarker(i) /\ HasStdevMarker(i)})) # None
              => result[2] = ValueOf(First({i \in 1..Len(lines) :
                                               ~HasMeanMarker(i) /\ HasStdevMarker(i)}))

\* C4 amended: the value of a statistic is that of the last line containing
\* its marker whose value parses (for the standard deviation, the last such
\* line without the mean marker); earlier lines do not decide it.
C4_LastParsedLineWins ==
    /\ Scanned =>
          /\ mean_av = IF MeanLines = {} THEN None ELSE ValueOf(Last(MeanLines))
          /\ stdev_av = IF StdevLines = {} THEN None ELSE ValueOf(Last(StdevLines))
    /\ Returned =>
          /\ result[1] = ValueOf(Last(MeanLines))
          /\ result[2] = ValueOf(Last(StdevLines))

\* Two mean lines with different values, and the later one returned.
C4_Witness ==
    /\ Returned
    /\ \E i, j \in MeanLines :
          i < j /\ ValueOf(i) # ValueOf(j) /\ j = Last(MeanLines) /\ result[1] = ValueOf(j)

-----------------------------------------------------------------------------
(* C8 *)

\* The loop is at line i of the page.
AtLine(i) == pc = "scan" /\ idx = i /\ i <= Len(lines)

\* C8: a marker line whose value does not parse raises nothing, leaves both
\* statistics as they were, and the loop goes on to the next line; so a
\* statistic with a well-formed line anywhere on the page is found.
C8_MalformedLineSkipped ==
    /\ [][\A i \in 1..Len(lines) :
             AtLine(i) /\ Malformed(i) =>
                 /\ mean_av' = mean_av /\ stdev_av' = stdev_av
                 /\ error' = NoError /\ pc' = "scan" /\ idx' = i + 1]_vars
    /\ [](Scanned => (MeanLines # {} => mean_av # None)
                     /\ (StdevLines # {} => stdev_av # None))

\* A malformed mean line after a well-formed one, and one before a
\* well-formed standard deviation line; the pair was returned.
C8_Witness ==
    /\ Returned
    /\ Len(lines) = 3
    /\ 1 \in MeanLines /\ HasMeanMarker(2) /\ Malformed(2) /\ 3 \in StdevLines
    /\ result = <<ValueOf(1), ValueOf(3)>>

-----------------------------------------------------------------------------
(* C10 *)

\* C10: a line changes at most one of the two statistics, and a line with
\* the mean marker never changes the standard deviation; a page whose
\* standard-deviation markers all share their line with a mean marker ends
\* in NoStarsFound.
C10_OneStatisticPerLine ==
    /\ [][\A i \in 1..Len(lines) :
             AtLine(i) =>
                 /\ mean_av' = mean_av \/ stdev_av' = stdev_av
                 /\ HasMeanMarker(i) => stdev_av' = stdev_av]_vars
    /\ [](Scanned /\ (\A i \in 1..Len(lines) : HasStdevMarker(i) => HasMeanMarker(i))
             => error.kind = "NoStarsFound" /\ stdev_av = None)

\* Both markers are on the page, on one line, and the call found no stars.
C10_Witness ==
    /\ Raised("NoStarsFound")
    /\ mean_av # None
    /\ \E i \in 1..Len(lines) : HasMeanMarker(i) /\ HasStdevMarker(i)

=============================================================================
